---- MODULE Spec2Model ----
(***************************************************************************)
(* Model of scripts/validate-github-actions.py: the command-line driver    *)
(* main() and the workflow validator validate_workflow(file_path).         *)
(*                                                                         *)
(* A run is the driver walking sys.argv[1:]; for each file it calls         *)
(* validate_workflow, which is modelled statement group by statement       *)
(* group (pc is the position in the code).  Parsed YAML trees are modelled *)
(* by their shape: which keys are present and whether each value is null,  *)
(* a scalar, a sequence or a mapping, empty or not.  Trigger names and job *)
(* names are modelled by their position in the mapping (Python dicts keep  *)
(* insertion order and keys are unique).                                   *)
(***************************************************************************)
EXTENDS Integers, Sequences, FiniteSets, TLC

VARIABLES argv, pc, i, all_valid, ret, returned, exc,
          workflow, errors, on_field, t, j, stdout, exit_status

vars == <<argv, pc, i, all_valid, ret, returned, exc,
          workflow, errors, on_field, t, j, stdout, exit_status>>

(* Bounds of the model. *)
MaxFiles == 2
MaxJobs == 2
MaxTriggers == 1

SeqsUpTo(S, n) == UNION {[1..k -> S] : k \in 0..n}

(***************************************************************************)
(* Parsed values.  A value under the trigger key is a record [t, cfgs]:    *)
(* t is the shape, cfgs the trigger configurations when t = "map" (the     *)
(* empty mapping is t = "map" with cfgs = <<>>).  "absent" marks a key     *)
(* that is not in the mapping.  "str" stands for every truthy value that   *)
(* is not a mapping (a scalar such as push, or a non-empty sequence); a    *)
(* trigger configuration "map" stands for every configuration that is      *)
(* neither an empty mapping nor an empty sequence (null and scalars too).  *)
(***************************************************************************)
None == [t |-> "null", cfgs |-> <<>>]

KeyAbsent == [t |-> "absent", cfgs |-> <<>>]

TriggerConfigs == {"emptymap", "emptyseq", "map"}

OnValues ==
    {[t |-> k, cfgs |-> <<>>] : k \in {"absent", "null", "emptyseq", "str"}}
    \cup {[t |-> "map", cfgs |-> c] : c \in SeqsUpTo(TriggerConfigs, MaxTriggers)}

(* A job: t is the shape of the job's value; for a mapping, runs_on says   *)
(* whether the key runs-on is present and steps is the shape of steps.     *)
(* "str" stands for every job value that is not a mapping.  The value of   *)
(* jobs itself is absent, null, a sequence (empty or not) or a mapping.    *)
JobConfigs ==
    {[t |-> "str", runs_on |-> FALSE, steps |-> "absent"]}
    \cup {[t |-> "map", runs_on |-> r, steps |-> s] :
             r \in BOOLEAN, s \in {"absent", "emptyseq", "seq"}}

JobsValues ==
    {[t |-> k, jobs |-> <<>>] : k \in {"absent", "null", "emptyseq", "seq"}}
    \cup {[t |-> "map", jobs |-> js] : js \in SeqsUpTo(JobConfigs, MaxJobs)}

(* The tree yaml.safe_load returns: top is the shape of the root; name     *)
(* says whether "name" in workflow holds.                                  *)
NoTree == [top |-> "null", name |-> FALSE, on |-> KeyAbsent, alias |-> KeyAbsent,
           jobs |-> [t |-> "absent", jobs |-> <<>>]]

MappingTrees ==
    {[top |-> "map", name |-> n, on |-> o, alias |-> a, jobs |-> js] :
        n \in BOOLEAN, o \in OnValues, a \in OnValues, js \in JobsValues}

OtherTrees ==
    {[NoTree EXCEPT !.top = k, !.name = n] : k \in {"null", "seq", "str"}, n \in BOOLEAN}

(* A file named on the command line: unreadable, not YAML, or YAML. *)
Files ==
    {[kind |-> k, tree |-> NoTree] : k \in {"unreadable", "badyaml"}}
    \cup {[kind |-> "yaml", tree |-> w] : w \in MappingTrees \cup OtherTrees}

(* Scenario A of the specification: name, on: {push: {}}, one complete job. *)
ScenarioA ==
    [kind |-> "yaml",
     tree |-> [top |-> "map", name |-> TRUE,
               on |-> [t |-> "map", cfgs |-> <<"emptymap">>], alias |-> KeyAbsent,
               jobs |-> [t |-> "map",
                         jobs |-> <<[t |-> "map", runs_on |-> TRUE, steps |-> "seq"]>>]]]

(* A valid workflow and a workflow with two findings. *)
GoodFile == [ScenarioA EXCEPT !.tree.on = [t |-> "str", cfgs |-> <<>>]]

BadFile == [GoodFile EXCEPT !.tree.name = FALSE, !.tree.jobs = [t |-> "map", jobs |-> <<>>]]

NullFile == [kind |-> "yaml", tree |-> NoTree]

NullJobsFile == [GoodFile EXCEPT !.tree.jobs = [t |-> "null", jobs |-> <<>>]]

BatchFiles ==
    {[kind |-> k, tree |-> NoTree] : k \in {"unreadable", "badyaml"}}
    \cup {ScenarioA, GoodFile, BadFile, NullFile, NullJobsFile}

(***************************************************************************)
(* Helpers of validate_workflow.                                           *)
(***************************************************************************)
(* Python truthiness of a parsed value. *)
Truthy(v) ==
    CASE v.t = "map" -> Len(v.cfgs) > 0
      [] v.t = "str" -> TRUE
      [] OTHER -> FALSE

(* dict.get(key): the value, or None when the key is absent. *)
Get(v) == IF v.t = "absent" THEN None ELSE v

(* workflow.get("on") or workflow.get(True) *)
OnField(w) == IF Truthy(Get(w.on)) THEN Get(w.on) ELSE Get(w.alias)

Finding(rule, scope) == [rule |-> rule, scope |-> scope]

(* Mutation: the empty-mapping branch of lines 40-41 left out. *)
TriggerFindingsListOnly(k, config) ==
    IF config = "emptyseq" THEN <<Finding("trigger_list_empty", k)>> ELSE <<>>

(* Lines 40-43: the finding for one trigger configuration, if any. *)
TriggerFindings(k, config) ==
    CASE config = "emptymap" -> <<Finding("trigger_config_empty", k)>>
      [] config = "emptyseq" -> <<Finding("trigger_list_empty", k)>>
      [] OTHER -> <<>>

(* Lines 52-53. *)
RunsOnFindings(k, job_config) ==
    IF ~job_config.runs_on THEN <<Finding("job_missing_runs_on", k)>> ELSE <<>>

(* Mutation: one falsy test for steps, absent and empty not told apart. *)
StepsFindingsConflated(k, job_config) ==
    IF job_config.steps \in {"absent", "emptyseq"}
    THEN <<Finding("job_missing_steps", k)>>
    ELSE <<>>

(* Lines 55-58. *)
StepsFindings(k, job_config) ==
    IF job_config.steps = "absent" THEN <<Finding("job_missing_steps", k)>>
    ELSE IF job_config.steps = "emptyseq" THEN <<Finding("job_empty_steps", k)>>
    ELSE <<>>

(* Lines 48-58: the findings of one iteration of the jobs loop. *)
JobFindings(k, job_config) ==
    IF job_config.t # "map"
    THEN <<Finding("job_not_dict", k)>>
    ELSE RunsOnFindings(k, job_config) \o StepsFindings(k, job_config)

Line(file, head, lines) == [file |-> file, head |-> head, lines |-> lines]

(* The locals of validate_workflow outside a call. *)
NoCall ==
    /\ workflow' = NoTree
    /\ errors' = <<>>
    /\ on_field' = None
    /\ t' = 0
    /\ j' = 0
    /\ exc' = "none"

Raise(e) ==
    /\ pc' = "except"
    /\ exc' = e
    /\ UNCHANGED <<workflow, errors, on_field, t, j>>

(***************************************************************************)
(* Initial states: the command line.                                       *)
(***************************************************************************)
InitRest ==
    /\ pc = "main"
    /\ i = 0
    /\ all_valid = TRUE
    /\ ret = TRUE
    /\ returned = <<>>
    /\ exc = "none"
    /\ workflow = NoTree
    /\ errors = <<>>
    /\ on_field = None
    /\ t = 0
    /\ j = 0
    /\ stdout = <<>>
    /\ exit_status = -1

(* One file of any modelled shape (or no argument at all). *)
Init ==
    /\ argv \in {<<>>} \cup {<<f>> : f \in Files}
    /\ InitRest

(* A batch of files. *)
InitBatch ==
    /\ argv \in SeqsUpTo(BatchFiles, MaxFiles)
    /\ InitRest

(***************************************************************************)
(* main()                                                                  *)
(***************************************************************************)
(* Lines 78-80: no file argument. *)
MainUsage ==
    /\ pc = "main"
    /\ Len(argv) = 0
    /\ stdout' = Append(stdout, Line(0, "usage", <<>>))
    /\ exit_status' = 1
    /\ pc' = "exited"
    /\ UNCHANGED <<argv, i, all_valid, ret, returned, exc, workflow, errors, on_field, t, j>>

(* Line 82. *)
MainStart ==
    /\ pc = "main"
    /\ Len(argv) > 0
    /\ all_valid' = TRUE
    /\ i' = 1
    /\ pc' = "for"
    /\ UNCHANGED <<argv, ret, returned, exc, workflow, errors, on_field, t, j, stdout, exit_status>>

(* Lines 83-84: the next file, and the call of validate_workflow. *)
MainFor ==
    /\ pc = "for"
    /\ pc' = IF i <= Len(argv) THEN "open" ELSE "end"
    /\ UNCHANGED <<argv, i, all_valid, ret, returned, exc, workflow, errors, on_field, t, j,
                   stdout, exit_status>>

(* Mutation: all_valid overwritten by the last result. *)
MainAfterCallOverwrite ==
    /\ pc = "returned"
    /\ all_valid' = ret
    /\ returned' = Append(returned, ret)
    /\ i' = i + 1
    /\ pc' = "for"
    /\ UNCHANGED <<argv, ret, exc, workflow, errors, on_field, t, j, stdout, exit_status>>

(* Lines 84-85: the value validate_workflow returned. *)
MainAfterCall ==
    /\ pc = "returned"
    /\ all_valid' = IF ~ret THEN FALSE ELSE all_valid
    /\ returned' = Append(returned, ret)
    /\ i' = i + 1
    /\ pc' = "for"
    /\ UNCHANGED <<argv, ret, exc, workflow, errors, on_field, t, j, stdout, exit_status>>

(* Lines 87-88, and the normal end of the process. *)
MainEnd ==
    /\ pc = "end"
    /\ exit_status' = IF ~all_valid THEN 1 ELSE 0
    /\ pc' = "exited"
    /\ UNCHANGED <<argv, i, all_valid, ret, returned, exc, workflow, errors, on_field, t, j,
                   stdout>>

(***************************************************************************)
(* validate_workflow(file_path)                                            *)
(***************************************************************************)
(* Mutation: a syntax error yields an empty document instead of raising. *)
LoadSyntaxErrorAsNull ==
    /\ pc = "open"
    /\ IF argv[i].kind = "unreadable"
       THEN Raise("Exception")
       ELSE /\ workflow' = argv[i].tree
            /\ errors' = <<>>
            /\ pc' = "name"
            /\ UNCHANGED <<exc, on_field, t, j>>
    /\ UNCHANGED <<argv, i, all_valid, ret, returned, stdout, exit_status>>

(* Lines 14-17: open, yaml.safe_load, errors = []. *)
Load ==
    /\ pc = "open"
    /\ CASE argv[i].kind = "unreadable" -> Raise("Exception")
         [] argv[i].kind = "badyaml" -> Raise("YAMLError")
         [] OTHER ->
              /\ workflow' = argv[i].tree
              /\ errors' = <<>>
              /\ pc' = "name"
              /\ UNCHANGED <<exc, on_field, t, j>>
    /\ UNCHANGED <<argv, i, all_valid, ret, returned, stdout, exit_status>>

(* Lines 20-21: "name" not in workflow raises TypeError on None. *)
CheckName ==
    /\ pc = "name"
    /\ IF workflow.top = "null"
       THEN Raise("Exception")
       ELSE /\ errors' = IF ~workflow.name
                         THEN Append(errors, Finding("missing_name", 0))
                         ELSE errors
            /\ pc' = "on"
            /\ UNCHANGED <<exc, workflow, on_field, t, j>>
    /\ UNCHANGED <<argv, i, all_valid, ret, returned, stdout, exit_status>>

(* Lines 24-28: only a dict has .get; the elif repeats the if's test. *)
CheckOn ==
    /\ pc = "on"
    /\ IF workflow.top # "map"
       THEN Raise("Exception")
       ELSE /\ on_field' = OnField(workflow)
            /\ errors' = IF ~Truthy(on_field')
                         THEN Append(errors, Finding("missing_on", 0))
                         ELSE IF ~Truthy(on_field')
                         THEN Append(errors, Finding("empty_on", 0))
                         ELSE errors
            /\ pc' = "jobs"
            /\ UNCHANGED <<exc, workflow, t, j>>
    /\ UNCHANGED <<argv, i, all_valid, ret, returned, stdout, exit_status>>

(* Lines 30-33. *)
CheckJobs ==
    /\ pc = "jobs"
    /\ errors' = IF workflow.jobs.t = "absent"
                 THEN Append(errors, Finding("missing_jobs", 0))
                 ELSE IF workflow.jobs.t \in {"null", "emptyseq"}
                         \/ (workflow.jobs.t = "map" /\ Len(workflow.jobs.jobs) = 0)
                 THEN Append(errors, Finding("empty_jobs", 0))
                 ELSE errors
    /\ pc' = "triggers"
    /\ UNCHANGED <<argv, i, all_valid, ret, returned, exc, workflow, on_field, t, j, stdout,
                   exit_status>>

(* Lines 36-37: the trigger loop runs for a non-empty mapping only. *)
CheckTriggers ==
    /\ pc = "triggers"
    /\ IF Truthy(on_field) /\ on_field.t = "map"
       THEN t' = 1 /\ pc' = "trigger"
       ELSE t' = t /\ pc' = "jobs_loop"
    /\ UNCHANGED <<argv, i, all_valid, ret, returned, exc, workflow, errors, on_field, j, stdout,
                   exit_status>>

(* Mutation: trigger findings inserted at the head of errors. *)
TriggerIterPrepend ==
    /\ pc = "trigger"
    /\ IF t <= Len(on_field.cfgs)
       THEN /\ errors' = TriggerFindings(t, on_field.cfgs[t]) \o errors
            /\ t' = t + 1
            /\ pc' = pc
       ELSE /\ pc' = "jobs_loop"
            /\ UNCHANGED <<errors, t>>
    /\ UNCHANGED <<argv, i, all_valid, ret, returned, exc, workflow, on_field, j, stdout,
                   exit_status>>

(* Lines 39-43: one iteration of the trigger loop. *)
TriggerIter ==
    /\ pc = "trigger"
    /\ IF t <= Len(on_field.cfgs)
       THEN /\ errors' = errors \o TriggerFindings(t, on_field.cfgs[t])
            /\ t' = t + 1
            /\ pc' = pc
       ELSE /\ pc' = "jobs_loop"
            /\ UNCHANGED <<errors, t>>
    /\ UNCHANGED <<argv, i, all_valid, ret, returned, exc, workflow, on_field, j, stdout,
                   exit_status>>

(* Lines 46-47: workflow["jobs"].items() raises unless jobs is a dict. *)
CheckJobsStructure ==
    /\ pc = "jobs_loop"
    /\ IF workflow.jobs.t = "absent"
       THEN pc' = "finish" /\ UNCHANGED <<exc, workflow, errors, on_field, t, j>>
       ELSE IF workflow.jobs.t # "map"
       THEN Raise("Exception")
       ELSE j' = 1 /\ pc' = "job" /\ UNCHANGED <<exc, workflow, errors, on_field, t>>
    /\ UNCHANGED <<argv, i, all_valid, ret, returned, stdout, exit_status>>

(* Mutation: break instead of continue after a job that is not a dict. *)
JobIterBreak ==
    /\ pc = "job"
    /\ IF j <= Len(workflow.jobs.jobs)
       THEN /\ errors' = errors \o JobFindings(j, workflow.jobs.jobs[j])
            /\ j' = j + 1
            /\ pc' = IF workflow.jobs.jobs[j].t # "map" THEN "finish" ELSE pc
       ELSE /\ pc' = "finish"
            /\ UNCHANGED <<errors, j>>
    /\ UNCHANGED <<argv, i, all_valid, ret, returned, exc, workflow, on_field, t, stdout,
                   exit_status>>

(* Lines 47-58: one iteration of the jobs loop. *)
JobIter ==
    /\ pc = "job"
    /\ IF j <= Len(workflow.jobs.jobs)
       THEN /\ errors' = errors \o JobFindings(j, workflow.jobs.jobs[j])
            /\ j' = j + 1
            /\ pc' = pc
       ELSE /\ pc' = "finish"
            /\ UNCHANGED <<errors, j>>
    /\ UNCHANGED <<argv, i, all_valid, ret, returned, exc, workflow, on_field, t, stdout,
                   exit_status>>

(* Lines 60-67: print the findings and return. *)
Finish ==
    /\ pc = "finish"
    /\ IF errors # <<>>
       THEN /\ stdout' = Append(stdout, Line(i, "invalid", errors))
            /\ ret' = FALSE
       ELSE /\ stdout' = Append(stdout, Line(i, "valid", <<>>))
            /\ ret' = TRUE
    /\ pc' = "returned"
    /\ NoCall
    /\ UNCHANGED <<argv, i, all_valid, returned, exit_status>>

(* Lines 69-71. *)
ExceptYAMLError ==
    /\ pc = "except"
    /\ exc = "YAMLError"
    /\ stdout' = Append(stdout, Line(i, "yaml_error", <<>>))
    /\ ret' = FALSE
    /\ pc' = "returned"
    /\ NoCall
    /\ UNCHANGED <<argv, i, all_valid, returned, exit_status>>

(* Lines 72-74. *)
ExceptException ==
    /\ pc = "except"
    /\ exc = "Exception"
    /\ stdout' = Append(stdout, Line(i, "error", <<>>))
    /\ ret' = FALSE
    /\ pc' = "returned"
    /\ NoCall
    /\ UNCHANGED <<argv, i, all_valid, returned, exit_status>>

validate_workflow ==
    \/ Load
    \/ CheckName
    \/ CheckOn
    \/ CheckJobs
    \/ CheckTriggers
    \/ TriggerIter
    \/ CheckJobsStructure
    \/ JobIter
    \/ Finish
    \/ ExceptYAMLError
    \/ ExceptException

main ==
    \/ MainUsage
    \/ MainStart
    \/ MainFor
    \/ MainAfterCall
    \/ MainEnd

Next == main \/ validate_workflow

Spec == Init /\ [][Next]_vars

SpecBatch == InitBatch /\ [][Next]_vars

(***************************************************************************)
(* Vocabulary of the properties.  Every call of validate_workflow prints   *)
(* one entry of stdout, so entry k belongs to file k of the command line.  *)
(***************************************************************************)
Entries == {k \in DOMAIN stdout : stdout[k].file >= 1}

FileOf(k) == argv[stdout[k].file]

TreeOf(k) == FileOf(k).tree

(* The call printed a report (the findings, or "Valid"). *)
HasReport(k) == stdout[k].head \in {"valid", "invalid"}

Has(lines, rule, scope) == \E n \in DOMAIN lines : lines[n] = Finding(rule, scope)

Count(lines, rule) == Cardinality({n \in DOMAIN lines : lines[n].rule = rule})

IsMapping(file) == file.kind = "yaml" /\ file.tree.top = "map"

JobRules == {"job_not_dict", "job_missing_runs_on", "job_missing_steps", "job_empty_steps"}

TriggerConfigRules == {"trigger_config_empty", "trigger_list_empty"}

CompleteJob(job) == job.t = "map" /\ job.runs_on /\ job.steps = "seq"

(* Name present, a mapping-shaped trigger field whose only trigger has an  *)
(* empty mapping as configuration, and complete jobs: nothing else wrong.  *)
EmptyTriggerConfigOnly(file) ==
    /\ IsMapping(file)
    /\ file.tree.name
    /\ file.tree.on = [t |-> "map", cfgs |-> <<"emptymap">>]
    /\ file.tree.alias.t = "absent"
    /\ file.tree.jobs.t = "map"
    /\ Len(file.tree.jobs.jobs) > 0
    /\ \A n \in DOMAIN file.tree.jobs.jobs : CompleteJob(file.tree.jobs.jobs[n])

(* ----------------------------------------------------------------------- *)
(* C1 as stated: a document whose only smell is an empty trigger            *)
(* configuration is Valid (validate_workflow returns True, a driver run    *)
(* over only such documents exits 0), and a document is invalid iff its    *)
(* report holds a finding other than the trigger-configuration warnings.   *)
C1_WarningOnlyDocumentIsValid ==
    /\ \A k \in DOMAIN returned :
          /\ EmptyTriggerConfigOnly(argv[k]) => returned[k] = TRUE
          /\ HasReport(k) =>
                (returned[k] = FALSE <=>
                    \E n \in DOMAIN stdout[k].lines :
                        stdout[k].lines[n].rule \notin TriggerConfigRules)
    /\ (pc = "exited" /\ Len(argv) > 0
          /\ \A f \in DOMAIN argv : EmptyTriggerConfigOnly(argv[f]))
       => exit_status = 0

(* C1 as amended: such a document yields exactly one finding, the empty     *)
(* trigger configuration, which is recorded in errors like every other     *)
(* finding: validate_workflow returns False for it and a driver run that   *)
(* holds such a document exits 1.  validate_workflow returns True iff it   *)
(* printed a report with no finding of any kind.                           *)
C1_EmptyTriggerConfigInvalidates ==
    /\ \A k \in DOMAIN returned :
          /\ EmptyTriggerConfigOnly(argv[k]) =>
                /\ stdout[k].head = "invalid"
                /\ stdout[k].lines = <<Finding("trigger_config_empty", 1)>>
                /\ returned[k] = FALSE
          /\ returned[k] = TRUE <=> (HasReport(k) /\ stdout[k].lines = <<>>)
    /\ (pc = "exited" /\ \E f \in DOMAIN argv : EmptyTriggerConfigOnly(argv[f]))
       => exit_status = 1

C1_Witness ==
    /\ pc = "exited"
    /\ Len(argv) = 2
    /\ \A f \in DOMAIN argv : EmptyTriggerConfigOnly(argv[f])
    /\ returned = <<FALSE, FALSE>>
    /\ exit_status = 1

(* ----------------------------------------------------------------------- *)
(* C2: for an input that parses, validation never ends in the generic      *)
(* error handler and never throws away findings it has collected: every    *)
(* parsed file gets a report.                                              *)
C2_ParsedInputAlwaysGetsReport ==
    /\ \A k \in Entries : FileOf(k).kind = "yaml" => HasReport(k)
    /\ pc = "except" => errors = <<>>

(* ----------------------------------------------------------------------- *)
(* C3: every parsed document whose top-level mapping has no name key gets  *)
(* the name-presence finding in its report, whatever else it contains.     *)
C3_MissingNameAlwaysReported ==
    \A k \in Entries :
        (IsMapping(FileOf(k)) /\ ~TreeOf(k).name)
        => (HasReport(k) /\ Has(stdout[k].lines, "missing_name", 0))

(* ----------------------------------------------------------------------- *)
(* C4: a trigger field that is present but an empty mapping, an empty      *)
(* sequence or null gets exactly one trigger Error in the report, the      *)
(* "empty trigger field" finding and not the "missing" one.                *)
TriggerPresentButEmpty(w) ==
    /\ w.alias.t = "absent"
    /\ \/ w.on.t \in {"null", "emptyseq"}
       \/ (w.on.t = "map" /\ w.on.cfgs = <<>>)

C4_EmptyTriggerReportedAsEmpty ==
    \A k \in Entries :
        (IsMapping(FileOf(k)) /\ HasReport(k) /\ TriggerPresentButEmpty(TreeOf(k)))
        => /\ Count(stdout[k].lines, "empty_on") = 1
           /\ Count(stdout[k].lines, "missing_on") = 0

(* ----------------------------------------------------------------------- *)
(* Orders of findings: a finding's key is rank of its rule, then the job   *)
(* or trigger it is scoped to, then the position of the check in the loop  *)
(* body.  A sequence is in order when its keys strictly increase.          *)
WithinJob(f) == IF f.rule \in {"job_missing_steps", "job_empty_steps"} THEN 2 ELSE 1

(* The order of rules 1 to 7 of the specification. *)
SpecRank(f) ==
    CASE f.rule = "missing_name" -> 1
      [] f.rule = "missing_on" -> 2
      [] f.rule = "empty_on" -> 3
      [] f.rule \in TriggerConfigRules -> 4
      [] f.rule = "missing_jobs" -> 5
      [] f.rule = "empty_jobs" -> 6
      [] OTHER -> 7

(* The order with the two jobs rules ahead of the trigger configurations. *)
SourceRank(f) ==
    CASE f.rule = "missing_name" -> 1
      [] f.rule = "missing_on" -> 2
      [] f.rule = "empty_on" -> 3
      [] f.rule = "missing_jobs" -> 4
      [] f.rule = "empty_jobs" -> 5
      [] f.rule \in TriggerConfigRules -> 6
      [] OTHER -> 7

InOrder(lines, Rank(_)) ==
    \A a, b \in DOMAIN lines :
        a < b => Rank(lines[a]) * 100 + lines[a].scope * 10 + WithinJob(lines[a])
                 < Rank(lines[b]) * 100 + lines[b].scope * 10 + WithinJob(lines[b])

(* C5 as stated: the findings of a report are in the order of rules 1 to   *)
(* 7, a trigger-configuration finding ahead of a jobs finding.             *)
C5_FindingsInSpecRuleOrder ==
    /\ InOrder(errors, SpecRank)
    /\ \A k \in Entries : InOrder(stdout[k].lines, SpecRank)

(* C5 as amended: the findings are in the order name, trigger presence,    *)
(* jobs presence, jobs non-empty, trigger configurations in trigger order, *)
(* then the jobs in declaration order (runs-on before steps), so a missing *)
(* or empty jobs finding precedes a trigger-configuration finding; the     *)
(* printed report is the collected list, nothing reordered or repeated.    *)
C5_FindingsInSourceOrder ==
    /\ InOrder(errors, SourceRank)
    /\ \A k \in Entries : InOrder(stdout[k].lines, SourceRank)

C5_Witness ==
    \E k \in Entries :
        \E a, b, c \in DOMAIN stdout[k].lines :
            /\ a < b /\ b < c
            /\ stdout[k].lines[a].rule = "missing_name"
            /\ stdout[k].lines[b].rule \in {"missing_jobs", "empty_jobs"}
            /\ stdout[k].lines[c].rule \in TriggerConfigRules

(* ----------------------------------------------------------------------- *)
(* C6: for a non-empty command line the driver validates every file in     *)
(* argument order, whatever the earlier files did, and exits 1 iff some    *)
(* file failed validation or failed to load, else 0.                       *)
C6_BatchNeverAbortedExitStatus ==
    /\ \A k \in DOMAIN stdout : Len(argv) > 0 => stdout[k].file = k
    /\ (pc = "exited" /\ Len(argv) > 0) =>
          /\ Len(stdout) = Len(argv)
          /\ Len(returned) = Len(argv)
          /\ \A k \in DOMAIN argv : argv[k].kind = "badyaml" => stdout[k].head = "yaml_error"
          /\ exit_status \in {0, 1}
          /\ exit_status = 1 <=> \E k \in DOMAIN stdout : stdout[k].head # "valid"

C6_Witness ==
    /\ pc = "exited"
    /\ Len(argv) = 2
    /\ argv[1].kind = "badyaml"
    /\ argv[2] = GoodFile
    /\ stdout[2].head = "valid"
    /\ exit_status = 1

(* ----------------------------------------------------------------------- *)
(* C7: for a job that is a mapping the steps findings are decided by the   *)
(* steps key alone: absent gives "missing steps" and not "empty steps", an *)
(* empty sequence gives "empty steps" and not "missing steps", a non-empty *)
(* sequence gives neither.                                                 *)
JobsOf(k) == TreeOf(k).jobs.jobs

HasJobs(k) == IsMapping(FileOf(k)) /\ TreeOf(k).jobs.t = "map"

C7_StepsFindingsExclusive ==
    \A k \in Entries :
        HasJobs(k) =>
            /\ HasReport(k)
            /\ \A n \in DOMAIN JobsOf(k) :
                  JobsOf(k)[n].t = "map" =>
                      /\ Has(stdout[k].lines, "job_missing_steps", n)
                            <=> JobsOf(k)[n].steps = "absent"
                      /\ Has(stdout[k].lines, "job_empty_steps", n)
                            <=> JobsOf(k)[n].steps = "emptyseq"

C7_Witness ==
    \E k \in Entries :
        /\ HasJobs(k)
        /\ Len(JobsOf(k)) = 2
        /\ JobsOf(k)[1].t = "map" /\ JobsOf(k)[1].steps = "absent"
        /\ JobsOf(k)[2].t = "map" /\ JobsOf(k)[2].steps = "emptyseq"
        /\ Has(stdout[k].lines, "job_missing_steps", 1)
        /\ Has(stdout[k].lines, "job_empty_steps", 2)

(* ----------------------------------------------------------------------- *)
(* C8 as stated: a parse failure evaluates no rule and emits no finding,   *)
(* and the caller can tell "parse failed" from "report with findings" by   *)
(* what validate_workflow hands back.                                      *)
RulePositions == {"name", "on", "jobs", "triggers", "trigger", "jobs_loop", "job", "finish"}

ParseFailureEmitsNothing ==
    /\ (pc \in RulePositions \cup {"except"} /\ argv[i].kind = "badyaml")
          => (pc = "except" /\ exc = "YAMLError" /\ errors = <<>>)
    /\ \A k \in Entries :
          FileOf(k).kind = "badyaml" => stdout[k] = Line(k, "yaml_error", <<>>)

C8_CallerDistinguishesParseFailure ==
    /\ ParseFailureEmitsNothing
    /\ \A a, b \in DOMAIN returned :
          (stdout[a].head = "yaml_error" /\ stdout[b].head = "invalid")
          => returned[a] # returned[b]

(* C8 as amended: a parse failure evaluates no rule and emits no finding,  *)
(* only the YAML error line; validate_workflow returns False for it as it  *)
(* does for a report with findings, so the two outcomes differ in the      *)
(* printed text alone.                                                     *)
C8_ParseFailureReturnsFalseLikeFindings ==
    /\ ParseFailureEmitsNothing
    /\ \A a \in DOMAIN returned :
          stdout[a].head \in {"yaml_error", "invalid"} => returned[a] = FALSE

C8_Witness ==
    /\ Len(returned) = 2
    /\ FileOf(1).kind = "badyaml"
    /\ stdout[1].head = "yaml_error"
    /\ stdout[2].head = "invalid"
    /\ stdout[2].lines # <<>>
    /\ returned = <<FALSE, FALSE>>

(* ----------------------------------------------------------------------- *)
(* C9: the trigger field is found under the key "on" or the key True, and  *)
(* the key that is present decides: neither key gives the presence Error,  *)
(* a non-empty value under exactly one key gives no trigger Error, and a   *)
(* present "on" with an empty value is judged as empty whatever the value  *)
(* under True is.                                                          *)
TriggerErrors(lines) == Count(lines, "missing_on") + Count(lines, "empty_on")

C9_PresentKeyIsAuthoritative ==
    \A k \in Entries :
        (IsMapping(FileOf(k)) /\ HasReport(k)) =>
            /\ (TreeOf(k).on.t = "absent" /\ TreeOf(k).alias.t = "absent")
                  => Has(stdout[k].lines, "missing_on", 0)
            /\ (TreeOf(k).on.t = "absent" /\ Truthy(TreeOf(k).alias))
                  => TriggerErrors(stdout[k].lines) = 0
            /\ (TreeOf(k).alias.t = "absent" /\ Truthy(TreeOf(k).on))
                  => TriggerErrors(stdout[k].lines) = 0
            /\ (TreeOf(k).on.t # "absent" /\ ~Truthy(TreeOf(k).on))
                  => TriggerErrors(stdout[k].lines) = 1

(* ----------------------------------------------------------------------- *)
(* C10: a job whose value is not a mapping gets exactly one finding, "not  *)
(* a mapping", and no runs-on or steps finding, and the jobs declared      *)
(* after it are still checked.                                             *)
JobLines(lines, n) ==
    {m \in DOMAIN lines : lines[m].rule \in JobRules /\ lines[m].scope = n}

C10_MalformedJobSkippedOthersChecked ==
    \A k \in Entries :
        HasJobs(k) =>
            /\ HasReport(k)
            /\ \A n \in DOMAIN JobsOf(k) :
                  IF JobsOf(k)[n].t # "map"
                  THEN /\ Cardinality(JobLines(stdout[k].lines, n)) = 1
                       /\ Has(stdout[k].lines, "job_not_dict", n)
                  ELSE /\ ~Has(stdout[k].lines, "job_not_dict", n)
                       /\ Has(stdout[k].lines, "job_missing_runs_on", n)
                             <=> ~JobsOf(k)[n].runs_on
                       /\ (JobsOf(k)[n].steps # "seq")
                             <=> \E m \in JobLines(stdout[k].lines, n) :
                                    WithinJob(stdout[k].lines[m]) = 2

C10_Witness ==
    \E k \in Entries :
        /\ HasJobs(k)
        /\ Len(JobsOf(k)) = 2
        /\ JobsOf(k)[1].t # "map"
        /\ JobsOf(k)[2] = [t |-> "map", runs_on |-> FALSE, steps |-> "absent"]
        /\ Has(stdout[k].lines, "job_not_dict", 1)
        /\ Has(stdout[k].lines, "job_missing_runs_on", 2)
        /\ Has(stdout[k].lines, "job_missing_steps", 2)

====
